---- MODULE Spec2Model ----
(***************************************************************************)
(* Schema registry, JSON document codec and Directory contract of tantivy. *)
(*                                                                         *)
(* schema.rs: Schema { fields: Vec<FieldEntry>, fields_map: HashMap },     *)
(* add_field / get_field / get_field_entry, Encodable / Decodable,         *)
(* to_named_doc / to_json / parse_document.                                *)
(* directory.rs: the Directory trait (open_read, open_write, atomic_write).*)
(***************************************************************************)
EXTENDS Integers, Sequences, FiniteSets, TLC

VARIABLES
    fields,       \* Schema.fields: Vec<FieldEntry>
    fields_map,   \* Schema.fields_map: HashMap<String, Field>
    issued,       \* history: what each add_*_field call returned and registered
    last,         \* the most recent call on the schema: its arguments and its return value
    doc_json,     \* the caller's JSON input (the result of Json::from_str on its text)
    files,        \* Directory: path -> content visible to open_read
    staged,       \* Directory: bytes of an atomic_write in progress (not yet visible)
    wr,           \* Directory: the atomic_write in progress, or the idle record
    reads         \* Directory: what each completed open_read returned

vars == <<fields, fields_map, issued, last, doc_json, files, staged, wr, reads>>

schemaVars == <<fields, fields_map, issued, last>>
dirVars == <<files, staged, wr, reads>>

(***************************************************************************)
(* Bounds of the exploration.                                              *)
(***************************************************************************)
MaxFields == 2        \* registrations explored by Spec and SpecDoc
WideFields == 257     \* registrations explored by SpecWide (one past the u8 range)
MaxWriteLen == 2      \* length of the data given to atomic_write
MaxWrites == 2        \* atomic_write calls explored by SpecDir
MaxReads == 2         \* open_read calls explored by SpecDir

(***************************************************************************)
(* Program constants.                                                      *)
(***************************************************************************)
\* Field(self.fields.len() as u8): a Field holds 8 bits.
FieldModulus == 256
\* Numbers are kept as <<hi, lo>> with value hi * U16Base + lo, so that u64 inputs
\* beyond u32::MAX (hi >= U16Base) stay representable.
U16Base == 65536

(***************************************************************************)
(* Strings. BTreeMap<String, _> iterates in ascending String order; the    *)
(* names used here, in that order.                                         *)
(***************************************************************************)
NameOrder == <<"author", "count", "jambon", "title">>

AllNames == {NameOrder[i] : i \in 1..Len(NameOrder)}

NameRank(n) == CHOOSE i \in 1..Len(NameOrder) : NameOrder[i] = n

NameLess(a, b) == NameRank(a) < NameRank(b)

\* The keys of a map in BTreeMap iteration order.
SortedNames(K) ==
    CHOOSE s \in [1..Cardinality(K) -> K] :
        /\ \A i \in 1..Cardinality(K) - 1 : NameLess(s[i], s[i + 1])
        /\ {s[i] : i \in 1..Cardinality(K)} = K

(***************************************************************************)
(* Option<T>.                                                              *)
(***************************************************************************)
None == <<>>
Some(x) == <<x>>
IsSome(o) == Len(o) = 1
Unwrap(o) == o[1]

(***************************************************************************)
(* Field options and field entries.                                        *)
(***************************************************************************)
\* TEXT and STRING of the schema module (STRING is a TLA+ keyword).
TEXT_OPTIONS == [indexing |-> "position", stored |-> FALSE]
STRING_OPTIONS == [indexing |-> "untokenized", stored |-> FALSE]
TextOptionsInputs == {TEXT_OPTIONS, STRING_OPTIONS}

\* U32Options::new().set_stored().set_fast(), and U32Options::new()
CountOptions == [indexed |-> FALSE, fast |-> TRUE, stored |-> TRUE]
DefaultU32Options == [indexed |-> FALSE, fast |-> FALSE, stored |-> FALSE]
U32OptionsInputs == {CountOptions, DefaultU32Options}

StrType(options) == [kind |-> "Str", options |-> options]
U32Type(options) == [kind |-> "U32", options |-> options]

\* FieldEntry::new_text / FieldEntry::new_u32
NewText(field_name, field_options) ==
    [name |-> field_name, field_type |-> StrType(field_options)]
NewU32(field_name, field_options) ==
    [name |-> field_name, field_type |-> U32Type(field_options)]

(***************************************************************************)
(* Schema, as a value: [fields, fields_map].                               *)
(***************************************************************************)
NewSchema == [fields |-> <<>>, fields_map |-> <<>>]

\* HashMap::insert: a later insert under the same key replaces the earlier one.
MapInsert(m, k, v) == [n \in DOMAIN m \cup {k} |-> IF n = k THEN v ELSE m[n]]

\* A mutant of MapInsert: the first registration of a name keeps the name.
MapInsertKeepFirst(m, k, v) ==
    [n \in DOMAIN m \cup {k} |-> IF n \in DOMAIN m THEN m[n] ELSE v]

\* self.fields.len() as u8
FieldOf(len) == len % FieldModulus

\* Schema::add_field: returns the schema after the call and the handle.
AddField(s, field_entry) ==
    LET field == FieldOf(Len(s.fields))
    IN  [schema |-> [fields |-> Append(s.fields, field_entry),
                     fields_map |-> MapInsert(s.fields_map, field_entry.name, field)],
         field |-> field]

\* Schema::get_field
GetField(s, field_name) ==
    IF field_name \in DOMAIN s.fields_map THEN Some(s.fields_map[field_name]) ELSE None

\* Schema::get_field_entry: &self.fields[field.0 as usize]
GetFieldEntry(s, field) == s.fields[field + 1]

\* Schema::get_field_name
GetFieldName(s, field) == GetFieldEntry(s, field).name

(***************************************************************************)
(* Schema encode / decode.                                                 *)
(***************************************************************************)
\* FieldEntry::encode: name, a discriminator of the type, the options.
FieldEntryEncode(e) ==
    [name |-> e.name,
     type |-> IF e.field_type.kind = "Str" THEN "text" ELSE "u32",
     options |-> e.field_type.options]

\* FieldEntry::decode
FieldEntryDecode(d) ==
    [name |-> d.name,
     field_type |-> IF d.type = "text" THEN StrType(d.options) ELSE U32Type(d.options)]

\* A mutant of SchemaEncode: the sequence is emitted last field first.
SchemaEncodeReversed(s) ==
    [ord \in 1..Len(s.fields) |-> FieldEntryEncode(s.fields[Len(s.fields) + 1 - ord])]

\* impl Encodable for Schema: emit_seq over self.fields, in order.
SchemaEncode(s) ==
    [ord \in 1..Len(s.fields) |-> FieldEntryEncode(s.fields[ord])]

RECURSIVE DecodeFrom(_, _, _)
DecodeFrom(d, i, s) ==
    IF i > Len(d) THEN s
    ELSE DecodeFrom(d, i + 1, AddField(s, FieldEntryDecode(d[i])).schema)

\* impl Decodable for Schema: read_seq, add_field for each element, in order.
SchemaDecode(d) == DecodeFrom(d, 1, NewSchema)

(***************************************************************************)
(* rustc_serialize::json::Json, the tree Json::from_str returns. A number  *)
(* without fraction or exponent is U64 when unsigned and I64 when it has a *)
(* minus sign; both are kept as the magnitude <<hi, lo>>.                   *)
(***************************************************************************)
JString(s) == [kind |-> "String", v |-> s]
JU64(hi, lo) == [kind |-> "U64", v |-> <<hi, lo>>]
JI64(hi, lo) == [kind |-> "I64", v |-> <<hi, lo>>]
JArray(items) == [kind |-> "Array", v |-> items]
JObject(members) == [kind |-> "Object", v |-> members]
JNull == [kind |-> "Null", v |-> <<>>]
\* Json::from_str failed: the text is not JSON.
JSyntaxError == [kind |-> "SyntaxError", v |-> <<>>]

\* The object with the members of the map f (key -> Json), in BTreeMap order.
ObjectOf(f) ==
    JObject([i \in 1..Cardinality(DOMAIN f) |->
                [key |-> SortedNames(DOMAIN f)[i], value |-> f[SortedNames(DOMAIN f)[i]]]])

(***************************************************************************)
(* Value, FieldValue, Document.                                            *)
(***************************************************************************)
StrValue(s) == [kind |-> "Str", v |-> s]
U32Value(n) == [kind |-> "U32", v |-> n]

FieldValue(field, value) == [field |-> field, value |-> value]

\* Document::new, Document::add
NewDocument == <<>>
DocAdd(doc, field_value) == Append(doc, field_value)

Occurrences(doc, fv) == Cardinality({i \in 1..Len(doc) : doc[i] = fv})

\* PartialEq for Document: both value lists sorted, then compared.
DocEq(a, b) ==
    /\ Len(a) = Len(b)
    /\ \A i \in 1..Len(a) : Occurrences(a, a[i]) = Occurrences(b, a[i])

RECURSIVE SortedInts(_)
SortedInts(S) ==
    IF S = {} THEN <<>>
    ELSE LET m == CHOOSE x \in S : \A y \in S : x <= y
         IN  <<m>> \o SortedInts(S \ {m})

\* Document::get_sorted_fields: the values grouped by field, ascending field.
GetSortedFields(doc) ==
    LET fs == SortedInts({doc[i].field : i \in 1..Len(doc)})
    IN  [g \in 1..Len(fs) |->
            [field |-> fs[g],
             field_values |-> SelectSeq(doc, LAMBDA fv : fv.field = fs[g])]]

(***************************************************************************)
(* FieldType::value_from_json.                                             *)
(***************************************************************************)
ValueOk(value) == [tag |-> "Ok", v |-> value]
TypeError == [tag |-> "TypeError", v |-> <<>>]
OverflowError == [tag |-> "OverflowError", v |-> <<>>]

\* val as u32: the low 32 bits.
AsU32(n) == <<n[1] % U16Base, n[2]>>

\* val > u32::max_value() as u64
ExceedsU32(n) == n[1] >= U16Base

ValueFromJson(field_type, json) ==
    CASE json.kind = "String" ->
            IF field_type.kind = "Str" THEN ValueOk(StrValue(json.v)) ELSE TypeError
      [] json.kind = "U64" ->
            IF field_type.kind = "U32"
            THEN IF ExceedsU32(json.v) THEN OverflowError
                 ELSE ValueOk(U32Value(AsU32(json.v)))
            ELSE TypeError
      [] OTHER -> TypeError

(***************************************************************************)
(* Schema::parse_document.                                                 *)
(***************************************************************************)
Ok(doc) == [tag |-> "Ok", v |-> doc]
NotJSON == [tag |-> "NotJSON", v |-> <<>>]
\* The diagnostic sample of the input text is not modelled.
NotJSONObject == [tag |-> "NotJSONObject", v |-> <<>>]
ValueError(field_name, e) == [tag |-> "ValueError", v |-> <<field_name, e.tag>>]
NoSuchFieldInSchema(field_name) == [tag |-> "NoSuchFieldInSchema", v |-> field_name]

\* A mutant of ScalarMember: a value that does not convert is skipped.
ScalarMemberLenient(field_type, field, field_name, json_value, doc) ==
    LET value == ValueFromJson(field_type, json_value)
    IN  IF value.tag = "Ok" THEN Ok(DocAdd(doc, FieldValue(field, value.v)))
        ELSE Ok(doc)

\* The `_ =>` arm: one value, or ValueError(field_name, e).
ScalarMember(field_type, field, field_name, json_value, doc) ==
    LET value == ValueFromJson(field_type, json_value)
    IN  IF value.tag = "Ok" THEN Ok(DocAdd(doc, FieldValue(field, value.v)))
        ELSE ValueError(field_name, value)

\* A mutant of ArrayMember: the items before the first bad one are kept and returned.
RECURSIVE ArrayMemberPartial(_, _, _, _, _, _)
ArrayMemberPartial(field_type, field, field_name, json_items, j, doc) ==
    IF j > Len(json_items) THEN Ok(doc)
    ELSE LET value == ValueFromJson(field_type, json_items[j])
         IN  IF value.tag = "Ok"
             THEN ArrayMemberPartial(field_type, field, field_name, json_items, j + 1,
                                     DocAdd(doc, FieldValue(field, value.v)))
             ELSE Ok(doc)

\* The `&Json::Array` arm: one value per item, from item j on.
RECURSIVE ArrayMember(_, _, _, _, _, _)
ArrayMember(field_type, field, field_name, json_items, j, doc) ==
    IF j > Len(json_items) THEN Ok(doc)
    ELSE LET value == ValueFromJson(field_type, json_items[j])
         IN  IF value.tag = "Ok"
             THEN ArrayMember(field_type, field, field_name, json_items, j + 1,
                              DocAdd(doc, FieldValue(field, value.v)))
             ELSE ValueError(field_name, value)

\* A mutant of UnknownField: a key the schema does not know is ignored.
UnknownFieldIgnored(field_name, doc) == Ok(doc)

\* The `None =>` arm.
UnknownField(field_name, doc) == NoSuchFieldInSchema(field_name)

\* The body of the loop over json_obj.iter(), for one member.
ParseMember(s, field_name, json_value, doc) ==
    IF IsSome(GetField(s, field_name))
    THEN LET field == Unwrap(GetField(s, field_name))
             field_type == GetFieldEntry(s, field).field_type
         IN  IF json_value.kind = "Array"
             THEN ArrayMember(field_type, field, field_name, json_value.v, 1, doc)
             ELSE ScalarMember(field_type, field, field_name, json_value, doc)
    ELSE UnknownField(field_name, doc)

\* The loop over json_obj.iter(), from member i on; try! and return leave it.
RECURSIVE ParseMembers(_, _, _, _)
ParseMembers(s, members, i, doc) ==
    IF i > Len(members) THEN Ok(doc)
    ELSE LET r == ParseMember(s, members[i].key, members[i].value, doc)
         IN  IF r.tag = "Ok" THEN ParseMembers(s, members, i + 1, r.v) ELSE r

ParseDocument(s, json) ==
    IF json.kind = "SyntaxError" THEN NotJSON
    ELSE IF json.kind # "Object" THEN NotJSONObject
    ELSE ParseMembers(s, json.v, 1, NewDocument)

(***************************************************************************)
(* Schema::to_named_doc and Schema::to_json.                               *)
(***************************************************************************)
\* field_values.into_iter().map(|field_val| field_val.value()).cloned().collect()
ValuesOf(field_values) == [i \in 1..Len(field_values) |-> field_values[i].value]

\* field_map.insert(field_name, values) for every group, from group g on.
RECURSIVE InsertGroups(_, _, _, _)
InsertGroups(s, groups, g, field_map) ==
    IF g > Len(groups) THEN field_map
    ELSE InsertGroups(s, groups, g + 1,
                      MapInsert(field_map, GetFieldName(s, groups[g].field),
                                ValuesOf(groups[g].field_values)))

\* A mutant of ToNamedDoc: the groups are listed as get_sorted_fields gives them.
ToNamedDocByOrdinal(s, doc) ==
    LET groups == GetSortedFields(doc)
    IN  [g \in 1..Len(groups) |->
            [name |-> GetFieldName(s, groups[g].field),
             values |-> ValuesOf(groups[g].field_values)]]

\* The NamedFieldDocument, as the list of its entries in BTreeMap iteration order.
ToNamedDoc(s, doc) ==
    LET field_map == InsertGroups(s, GetSortedFields(doc), 1, <<>>)
        names == SortedNames(DOMAIN field_map)
    IN  [i \in 1..Len(names) |-> [name |-> names[i], values |-> field_map[names[i]]]]

\* Encodable for Value: a text as a JSON string, a u32 as a JSON number.
ValueToJson(value) ==
    IF value.kind = "Str" THEN JString(value.v) ELSE JU64(value.v[1], value.v[2])

\* Encodable for NamedFieldDocument: an object, each name with the array of its values.
NamedDocToJson(named) ==
    JObject([i \in 1..Len(named) |->
                [key |-> named[i].name,
                 value |-> JArray([j \in 1..Len(named[i].values) |->
                                      ValueToJson(named[i].values[j])])]])

ToJson(s, doc) == NamedDocToJson(ToNamedDoc(s, doc))

(***************************************************************************)
(* The state as a schema value, and the names registered so far.           *)
(***************************************************************************)
Self == [fields |-> fields, fields_map |-> fields_map]

Idle == [op |-> "new"]

WrIdle == [pc |-> "idle", done |-> 0]

(***************************************************************************)
(* Actions of the schema registry.                                         *)
(***************************************************************************)
Register(field_entry) ==
    LET r == AddField(Self, field_entry)
    IN  /\ fields' = r.schema.fields
        /\ fields_map' = r.schema.fields_map
        /\ issued' = Append(issued, [field |-> r.field, entry |-> field_entry])
        /\ last' = [op |-> "add_field", ret |-> r.field]
        /\ UNCHANGED <<doc_json, dirVars>>

\* Schema::add_text_field
AddTextField(names, optionSet, limit) ==
    /\ Len(fields) < limit
    /\ \E field_name \in names, field_options \in optionSet :
           Register(NewText(field_name, field_options))

\* Schema::add_u32_field
AddU32Field(names, optionSet, limit) ==
    /\ Len(fields) < limit
    /\ \E field_name \in names, field_options \in optionSet :
           Register(NewU32(field_name, field_options))

\* json::encode(&schema) followed by json::decode of the result.
EncodeDecode ==
    /\ last' = [op |-> "decode",
                encoded |-> SchemaEncode(Self),
                ret |-> SchemaDecode(SchemaEncode(Self))]
    /\ UNCHANGED <<fields, fields_map, issued, doc_json, dirVars>>

InitSchema ==
    /\ fields = <<>>
    /\ fields_map = <<>>
    /\ issued = <<>>
    /\ last = Idle

InitDir ==
    /\ files = <<>>
    /\ staged = <<>>
    /\ wr = WrIdle
    /\ reads = <<>>

Init == InitSchema /\ InitDir /\ doc_json = JNull

RegistryNames == {"author", "count", "title"}

Next ==
    \/ AddTextField(RegistryNames, TextOptionsInputs, MaxFields)
    \/ AddU32Field(RegistryNames, U32OptionsInputs, MaxFields)
    \/ EncodeDecode

Spec == Init /\ [][Next]_vars

(***************************************************************************)
(* Documents: parse_document on the caller's input, to_json of the parsed  *)
(* document, parse_document of that output.                                *)
(***************************************************************************)
ParseDocumentCall ==
    /\ last' = [op |-> "parse_document", ret |-> ParseDocument(Self, doc_json)]
    /\ UNCHANGED <<fields, fields_map, issued, doc_json, dirVars>>

ToJsonCall ==
    /\ last.op = "parse_document"
    /\ last.ret.tag = "Ok"
    /\ last' = [op |-> "to_json",
                doc |-> last.ret.v,
                named |-> ToNamedDoc(Self, last.ret.v),
                ret |-> ToJson(Self, last.ret.v)]
    /\ UNCHANGED <<fields, fields_map, issued, doc_json, dirVars>>

ReparseCall ==
    /\ last.op = "to_json"
    /\ last' = [op |-> "reparse",
                doc |-> last.doc,
                json |-> last.ret,
                ret |-> ParseDocument(Self, last.ret)]
    /\ UNCHANGED <<fields, fields_map, issued, doc_json, dirVars>>

\* The inputs of parse_document: 4, u32::MAX, u32::MAX + 1, 5000000000, -5, texts, arrays.
U32Max == JU64(U16Base - 1, U16Base - 1)
U32MaxPlusOne == JU64(U16Base, 0)
FiveBillion == JU64(76293, 61952)
MinusFive == JI64(0, 5)

JsonScalars ==
    {JString("a"), JU64(0, 4), U32Max, U32MaxPlusOne, FiveBillion, MinusFive, JNull}

JsonArrays ==
    {JArray(<<>>), JArray(<<JString("a")>>), JArray(<<JString("a"), JString("b")>>),
     JArray(<<JString("b"), JString("a"), JString("b")>>),
     JArray(<<JString("a"), JU64(0, 4)>>), JArray(<<JU64(0, 4), JU64(0, 7)>>)}

JsonValues == JsonScalars \cup JsonArrays

DocKeys == {"author", "count", "jambon"}
DocNames == {"author", "count"}

DocInputs ==
    {ObjectOf(f) : f \in UNION {[K -> JsonValues] : K \in SUBSET DocKeys}}
        \cup {JSyntaxError, JArray(<<>>)}

InitDoc == InitSchema /\ InitDir /\ doc_json \in DocInputs

NextDoc ==
    \/ AddTextField(DocNames, {TEXT_OPTIONS}, MaxFields)
    \/ AddU32Field(DocNames, {CountOptions}, MaxFields)
    \/ ParseDocumentCall
    \/ ToJsonCall
    \/ ReparseCall

SpecDoc == InitDoc /\ [][NextDoc]_vars

(***************************************************************************)
(* Registrations past the range of a Field. The sequences explored: any of *)
(* the names at the ordinals 0, 1 and 256, "title" at the others.          *)
(***************************************************************************)
FreeOrdinals == {0, 1, FieldModulus}

WideNames(ordinal) == IF ordinal \in FreeOrdinals THEN RegistryNames ELSE {"title"}

AddTextFieldWide == AddTextField(WideNames(Len(fields)), {TEXT_OPTIONS}, WideFields)

WideInputs == {ObjectOf([k \in {n} |-> JString("a")]) : n \in RegistryNames}

InitWide == InitSchema /\ InitDir /\ doc_json \in WideInputs

NextWide ==
    \/ AddTextFieldWide
    \/ ParseDocumentCall
    \/ ToJsonCall
    \/ ReparseCall

SpecWide == InitWide /\ [][NextWide]_vars

(***************************************************************************)
(* Vocabulary of the properties.                                           *)
(***************************************************************************)
IsParse == last.op = "parse_document" /\ doc_json.kind = "Object"

Members == doc_json.v

Keys == {Members[i].key : i \in 1..Len(Members)}

Known(i) == Members[i].key \in DOMAIN fields_map

\* The field type parse_document resolves the key of member i to.
TypeOfMember(i) == fields[fields_map[Members[i].key] + 1].field_type

\* The JSON values member i asks to convert: the items of an array, or the value itself.
ItemsOf(i) ==
    IF Members[i].value.kind = "Array" THEN Members[i].value.v ELSE <<Members[i].value>>

\* The Value a JSON string or in-range unsigned number stands for.
Denotes(json) ==
    IF json.kind = "String" THEN StrValue(json.v) ELSE U32Value(json.v)

\* Whether a JSON value is acceptable for a field type, stated without the converter.
Acceptable(field_type, json) ==
    \/ field_type.kind = "Str" /\ json.kind = "String"
    \/ field_type.kind = "U32" /\ json.kind = "U64" /\ json.v[1] < U16Base

\* The error the claims name for a JSON value that is not acceptable.
CauseOf(field_type, json) ==
    IF field_type.kind = "U32" /\ json.kind = "U64" THEN "OverflowError" ELSE "TypeError"

Converts(i) == \A j \in 1..Len(ItemsOf(i)) : Acceptable(TypeOfMember(i), ItemsOf(i)[j])

FirstBadItem(i) ==
    ItemsOf(i)[CHOOSE j \in 1..Len(ItemsOf(i)) :
                  /\ ~Acceptable(TypeOfMember(i), ItemsOf(i)[j])
                  /\ \A h \in 1..(j - 1) : Acceptable(TypeOfMember(i), ItemsOf(i)[h])]

Fails(i) == ~Known(i) \/ ~Converts(i)

HasFailure == \E i \in 1..Len(Members) : Fails(i)

FirstFailure == CHOOSE i \in 1..Len(Members) : Fails(i) /\ \A h \in 1..(i - 1) : ~Fails(h)

\* The values a document holds for a field, in insertion order.
ValuesIn(doc, field) == ValuesOf(SelectSeq(doc, LAMBDA fv : fv.field = field))

\* The registrations that used a name, as positions in the call history.
RegistrationsOf(name) == {k \in 1..Len(issued) : issued[k].entry.name = name}

Latest(S) == CHOOSE k \in S : \A h \in S : h <= k

(***************************************************************************)
(* C1: the k-th add_text_field / add_u32_field call on a fresh Schema      *)
(* returns the handle with ordinal k, no two calls return the same handle, *)
(* and get_field_entry(handle) is, in every later state, the FieldEntry    *)
(* that call registered.                                                   *)
(***************************************************************************)
C1_HandlesDenseUniqueStable ==
    \A k \in 1..Len(issued) :
        /\ issued[k].field = k - 1
        /\ \A h \in 1..Len(issued) : h # k => issued[h].field # issued[k].field
        /\ issued[k].field < Len(fields)
        /\ GetFieldEntry(Self, issued[k].field) = issued[k].entry

(***************************************************************************)
(* C2: decoding the encoded form of a schema yields a schema whose field   *)
(* list has the same length and, at each ordinal, the same name, type and  *)
(* options, and whose get_field(name) returns the same handle for every    *)
(* name.                                                                   *)
(***************************************************************************)
C2_EncodeDecodeLossless ==
    last.op = "decode" =>
        /\ Len(last.ret.fields) = Len(fields)
        /\ \A i \in 1..Len(fields) :
               /\ last.ret.fields[i].name = fields[i].name
               /\ last.ret.fields[i].field_type.kind = fields[i].field_type.kind
               /\ last.ret.fields[i].field_type.options = fields[i].field_type.options
        /\ \A name \in AllNames : GetField(last.ret, name) = GetField(Self, name)

C2_Witness ==
    /\ last.op = "decode"
    /\ Len(fields) = 2
    /\ fields[1].field_type.kind # fields[2].field_type.kind
    /\ fields[1].name # fields[2].name

(***************************************************************************)
(* C3: for a Document doc that parse_document returned, parse_document of  *)
(* to_json(doc) succeeds and returns a Document equal to doc.              *)
(***************************************************************************)
C3_DocumentRoundTrip ==
    last.op = "reparse" => last.ret.tag = "Ok" /\ DocEq(last.ret.v, last.doc)

(***************************************************************************)
(* C4 as stated: parsing an object with a key that is not registered fails *)
(* with NoSuchFieldInSchema carrying exactly that key, whatever the other  *)
(* members of the object are.                                              *)
(***************************************************************************)
C4_UnknownKeyAlwaysReported ==
    (IsParse /\ \E i \in 1..Len(Members) : ~Known(i)) =>
        /\ last.ret.tag = "NoSuchFieldInSchema"
        /\ \E i \in 1..Len(Members) : ~Known(i) /\ last.ret.v = Members[i].key

(***************************************************************************)
(* C4 as amended: parsing an object with a key that is not registered      *)
(* never succeeds; it fails with NoSuchFieldInSchema carrying the first    *)
(* such key in iteration order when every member before that key converts, *)
(* and with the ValueError of the first member that does not convert       *)
(* otherwise.                                                              *)
(***************************************************************************)
C4_FirstUnknownKeyUnlessEarlierValueError ==
    (IsParse /\ \E i \in 1..Len(Members) : ~Known(i)) =>
        LET u == CHOOSE i \in 1..Len(Members) :
                     ~Known(i) /\ \A h \in 1..(i - 1) : Known(h)
        IN  /\ last.ret.tag # "Ok"
            /\ (\A h \in 1..(u - 1) : Converts(h)) =>
                   last.ret = NoSuchFieldInSchema(Members[u].key)
            /\ (\E h \in 1..(u - 1) : ~Converts(h)) =>
                   /\ last.ret.tag = "ValueError"
                   /\ last.ret.v[1] = Members[FirstFailure].key
                   /\ FirstFailure < u

C4_Witness ==
    /\ IsParse
    /\ Len(Members) = 3
    /\ \A i \in 1..2 : Known(i) /\ Converts(i)
    /\ last.ret = NoSuchFieldInSchema("jambon")

C7_GetFieldLatestRegistration ==
    \A name \in AllNames :
        /\ GetField(Self, name) = None <=> RegistrationsOf(name) = {}
        /\ RegistrationsOf(name) # {} =>
               /\ Unwrap(GetField(Self, name)) = issued[Latest(RegistrationsOf(name))].field
               /\ GetFieldName(Self, Unwrap(GetField(Self, name))) = name
        /\ \A k \in RegistrationsOf(name) : fields[k] = issued[k].entry

(***************************************************************************)
(* C8: parse_document examines the members in iteration order and returns  *)
(* the error of the first member that fails (NoSuchFieldInSchema(key) for  *)
(* an unregistered key, ValueError(key, cause) for a value that does not   *)
(* convert), and no Document; it returns Ok only when every key is         *)
(* registered and every value converts.                                    *)
(***************************************************************************)
C8_FirstErrorAllOrNothing ==
    IsParse =>
        /\ HasFailure =>
               LET i == FirstFailure
               IN  last.ret =
                       IF ~Known(i) THEN NoSuchFieldInSchema(Members[i].key)
                       ELSE [tag |-> "ValueError",
                             v |-> <<Members[i].key,
                                     CauseOf(TypeOfMember(i), FirstBadItem(i))>>]
        /\ ~HasFailure => last.ret.tag = "Ok"

C8_Witness ==
    /\ IsParse
    /\ last.ret.tag = "ValueError"
    /\ \E i \in 1..Len(Members) : i > FirstFailure /\ Fails(i)
    /\ \E h \in 1..Len(Members) : h < FirstFailure

(***************************************************************************)
(* C10: in a successful parse_document an array of k elements contributes  *)
(* k FieldValues to its field, in element order, any other value exactly   *)
(* one, a field whose name is not a key of the object none, and the        *)
(* Document holds nothing else.                                            *)
(***************************************************************************)
C10_MembersContribute ==
    (IsParse /\ last.ret.tag = "Ok") =>
        /\ \A i \in 1..Len(Members) :
               ValuesIn(last.ret.v, fields_map[Members[i].key])
                   = [j \in 1..Len(ItemsOf(i)) |-> Denotes(ItemsOf(i)[j])]
        /\ \A f \in 0..(Len(fields) - 1) :
               GetFieldName(Self, f) \notin Keys => ValuesIn(last.ret.v, f) = <<>>
        /\ \A n \in 1..Len(last.ret.v) :
               \E i \in 1..Len(Members) : last.ret.v[n].field = fields_map[Members[i].key]

(***************************************************************************)
(* Directory. The trait states the contract of atomic_write; the model is  *)
(* an implementation that keeps it: the bytes are written aside, one at a  *)
(* time, and put in place in one step, while open_read runs at any moment. *)
(***************************************************************************)
Paths == {"meta.json"}
Bytes == {1, 2}
WriteInputs == UNION {[1..n -> Bytes] : n \in 1..MaxWriteLen}

\* A mutant of VisibleWhileWriting: the bytes are written into the file itself.
VisibleInPlace(fs, path, written) == MapInsert(fs, path, written)

\* What open_read can see of a file while atomic_write has written some of its bytes.
VisibleWhileWriting(fs, path, written) == fs

\* Directory::open_read: the content of the file, or OpenError.
OpenReadResult(fs, path) == IF path \in DOMAIN fs THEN Some(fs[path]) ELSE None

\* atomic_write is entered; no byte is written yet.
BeginAtomicWrite ==
    /\ wr.pc = "idle"
    /\ wr.done < MaxWrites
    /\ \E path \in Paths, data \in WriteInputs :
           /\ wr' = [pc |-> "writing", done |-> wr.done, path |-> path, data |-> data,
                     old |-> OpenReadResult(files, path)]
           /\ files' = VisibleWhileWriting(files, path, <<>>)
    /\ staged' = <<>>
    /\ UNCHANGED <<reads, schemaVars, doc_json>>

\* atomic_write writes its next byte.
WriteByte ==
    /\ wr.pc = "writing"
    /\ Len(staged) < Len(wr.data)
    /\ staged' = Append(staged, wr.data[Len(staged) + 1])
    /\ files' = VisibleWhileWriting(files, wr.path, staged')
    /\ UNCHANGED <<wr, reads, schemaVars, doc_json>>

\* atomic_write puts the complete data in place and returns.
CommitAtomicWrite ==
    /\ wr.pc = "writing"
    /\ Len(staged) = Len(wr.data)
    /\ files' = MapInsert(files, wr.path, staged)
    /\ wr' = [pc |-> "idle", done |-> wr.done + 1]
    /\ staged' = <<>>
    /\ UNCHANGED <<reads, schemaVars, doc_json>>

\* open_read, by any reader, at any moment.
OpenRead ==
    /\ Len(reads) < MaxReads
    /\ \E path \in Paths :
           LET ret == OpenReadResult(files, path)
               concurrent == wr.pc = "writing" /\ wr.path = path
           IN  reads' = Append(reads,
                   [path |-> path,
                    ret |-> ret,
                    concurrent |-> concurrent,
                    old |-> IF concurrent THEN wr.old ELSE ret,
                    new |-> IF concurrent THEN Some(wr.data) ELSE ret,
                    written |-> Len(staged)])
    /\ UNCHANGED <<files, staged, wr, schemaVars, doc_json>>

NextDir ==
    \/ BeginAtomicWrite
    \/ WriteByte
    \/ CommitAtomicWrite
    \/ OpenRead

SpecDir == Init /\ [][NextDir]_vars

(***************************************************************************)
(* C9: an open_read that runs while atomic_write(path, data) is in         *)
(* progress returns the complete prior content or the complete new data,   *)
(* never a strict prefix or another intermediate state.                    *)
(***************************************************************************)
C9_ReadsSeeOldOrNew ==
    \A r \in 1..Len(reads) : reads[r].ret \in {reads[r].old, reads[r].new}

C9_Witness ==
    \E r \in 1..Len(reads) :
        /\ reads[r].concurrent
        /\ reads[r].written = 1
        /\ Len(reads[r].new[1]) = 2
        /\ reads[r].old # None
        /\ reads[r].old # reads[r].new
        /\ reads[r].ret = reads[r].old

====
